---- MODULE Spec2Model ----
(***************************************************************************)
(* UOP CarbonTrace graph digitizer: the session state of                   *)
(* CarbonTraceWindow (image, calibration, traced points, click mode, scale *)
(* kinds) and its handlers load_image, start_calibration, toggle_picking,  *)
(* on_canvas_click, select_by_color, clear_points, set_x/y_scale_type and  *)
(* save_data.  The repository holds two revisions of the program,          *)
(* src/UOP_CarbonTrace.py (version 1) and src/UOP_CarbonTrace_v2.py        *)
(* (version 2); the variable version says which one is running.            *)
(*                                                                         *)
(* Numbers.  Pixel coordinates, axis values and exported values are        *)
(* floats in the program.  They are modelled exactly: a finite value is a  *)
(* reduced fraction, and the IEEE specials that numpy produces (inf, nan)  *)
(* are separate kinds.  Rounding error of binary floating point is not     *)
(* modelled.                                                               *)
(***************************************************************************)
EXTENDS Integers, Sequences, FiniteSets, TLC

VARIABLES
    version,        \* 1: UOP_CarbonTrace.py, 2: UOP_CarbonTrace_v2.py
    img,            \* self.img: None or the loaded raster (named by its file)
    calibration,    \* self.calibration: key -> [pixel, val]
    data_points,    \* self.data_points: sequence of <<x, y>>
    current_state,  \* self.current_state: None, a calibration key or 'picking_points'
    btn_pick,       \* self.btn_pick.isChecked()
    x_scale_type,   \* v2: self.x_scale_type; v1: "log" iff rad_x_log.isChecked()
    y_scale_type,   \* v2: self.y_scale_type; v1: "log" iff rad_y_log.isChecked()
    out             \* what the last handler call was and what it showed or wrote

vars == <<version, img, calibration, data_points, current_state, btn_pick,
          x_scale_type, y_scale_type, out>>

\* Python's None, for a float attribute (pixel, val, xdata), for self.img
\* and for self.current_state.
None == [k |-> "None", n |-> 0, d |-> 0]

NoImage == ""

NoState == "None"

\* Bounds of the model.
MaxPoints == 3
MaxExportPoints == 2
MaxColorPoints == 3
MaxMissingPoints == 1
MaxValuePoints == 1

----------------------------------------------------------------------------
(* Exact arithmetic on the float values the program computes.              *)

Abs(i) == IF i < 0 THEN 0 - i ELSE i

Sign(i) == IF i < 0 THEN 0 - 1 ELSE IF i > 0 THEN 1 ELSE 0

RECURSIVE Gcd(_, _)
Gcd(a, b) == IF b = 0 THEN a ELSE Gcd(b, a % b)

\* The finite value n/d (d # 0), as a reduced fraction with positive denominator.
Q(n, d) ==
    LET g == Gcd(Abs(n), Abs(d))
        s == IF d < 0 THEN 0 - 1 ELSE 1
    IN  [k |-> "q", n |-> (s * n) \div g, d |-> Abs(d) \div g]

QInt(i) == [k |-> "q", n |-> i, d |-> 1]

Inf(s) == [k |-> "inf", n |-> s, d |-> 0]

NaN == [k |-> "nan", n |-> 0, d |-> 0]

\* 10 ** (n/d) for a non-integer exponent: an irrational value, kept symbolic.
Pow10Sym(n, d) == [k |-> "pow10", n |-> n, d |-> d]

FNeg(a) ==
    CASE a.k = "q" -> Q(0 - a.n, a.d)
      [] a.k = "inf" -> Inf(0 - a.n)
      [] a.k = "nan" -> NaN

\* IEEE addition.
FAdd(a, b) ==
    CASE a.k = "nan" \/ b.k = "nan" -> NaN
      [] a.k = "inf" /\ b.k = "inf" -> IF a.n = b.n THEN a ELSE NaN
      [] a.k = "inf" /\ b.k = "q" -> a
      [] a.k = "q" /\ b.k = "inf" -> b
      [] a.k = "q" /\ b.k = "q" -> Q(a.n * b.d + b.n * a.d, a.d * b.d)

FSub(a, b) == FAdd(a, FNeg(b))

\* IEEE multiplication.
FMul(a, b) ==
    CASE a.k = "nan" \/ b.k = "nan" -> NaN
      [] a.k = "inf" /\ b.k = "inf" -> Inf(a.n * b.n)
      [] a.k = "inf" /\ b.k = "q" -> IF b.n = 0 THEN NaN ELSE Inf(a.n * Sign(b.n))
      [] a.k = "q" /\ b.k = "inf" -> IF a.n = 0 THEN NaN ELSE Inf(b.n * Sign(a.n))
      [] a.k = "q" /\ b.k = "q" -> Q(a.n * b.n, a.d * b.d)

\* numpy float64 division: a zero divisor gives inf or nan (with a
\* RuntimeWarning), never an exception.  The divisor x2_px - x1_px is a
\* difference of two equal values when it is zero, hence +0.0.
FDiv(a, b) ==
    CASE a.k = "nan" \/ b.k = "nan" -> NaN
      [] a.k = "inf" /\ b.k = "inf" -> NaN
      [] a.k = "inf" /\ b.k = "q" -> Inf(a.n * (IF b.n < 0 THEN 0 - 1 ELSE 1))
      [] a.k = "q" /\ b.k = "inf" -> QInt(0)
      [] a.k = "q" /\ b.k = "q" ->
            IF b.n = 0
            THEN IF a.n = 0 THEN NaN ELSE Inf(Sign(a.n))
            ELSE Q(a.n * b.d, a.d * b.n)

RECURSIVE IPow10(_)
IPow10(e) == IF e = 0 THEN 1 ELSE 10 * IPow10(e - 1)

\* The exponentiation left out.
Pow10Skipped(a) == a

\* 10 ** a, as save_data computes it on a float64.
Pow10(a) ==
    CASE a.k = "nan" -> NaN
      [] a.k = "inf" -> IF a.n > 0 THEN Inf(1) ELSE QInt(0)
      [] a.k = "q" ->
            IF a.d = 1
            THEN IF a.n >= 0 THEN QInt(IPow10(a.n)) ELSE Q(1, IPow10(0 - a.n))
            ELSE Pow10Sym(a.n, a.d)

RECURSIVE ILog10(_)
ILog10(i) == IF i = 1 THEN 0 ELSE 1 + ILog10(i \div 10)

RECURSIVE IsPow10(_)
IsPow10(i) == i = 1 \/ (i > 1 /\ i % 10 = 0 /\ IsPow10(i \div 10))

\* math.log10 raises ValueError ("math domain error") on a value <= 0.
Log10Raises(a) == (a.k = "q" /\ a.n <= 0) \/ (a.k = "inf" /\ a.n < 0)

\* math.log10 of a positive power of ten (the positive axis values of the
\* model are powers of ten, so that the logarithm is exact).
Log10(a) ==
    CASE a.k = "q" /\ a.d = 1 /\ IsPow10(a.n) -> QInt(ILog10(a.n))
      [] a.k = "q" /\ a.n = 1 /\ IsPow10(a.d) -> QInt(0 - ILog10(a.d))
      [] a.k = "inf" /\ a.n > 0 -> a
      [] a.k = "nan" -> a

----------------------------------------------------------------------------
(* Text fields.  A text is a sequence of one-character strings; int() and  *)
(* float() are modelled by what they accept and what they return.          *)

DigitChars == {"0", "1", "2", "3", "4", "5", "6", "7", "8", "9"}

DigitVal(c) ==
    CASE c = "0" -> 0 [] c = "1" -> 1 [] c = "2" -> 2 [] c = "3" -> 3
      [] c = "4" -> 4 [] c = "5" -> 5 [] c = "6" -> 6 [] c = "7" -> 7
      [] c = "8" -> 8 [] c = "9" -> 9

IsDigits(s) == Len(s) > 0 /\ \A i \in 1..Len(s) : s[i] \in DigitChars

RECURSIVE DigitsVal(_)
DigitsVal(s) ==
    IF Len(s) = 0 THEN 0
    ELSE 10 * DigitsVal(SubSeq(s, 1, Len(s) - 1)) + DigitVal(s[Len(s)])

HasSign(s) == Len(s) > 0 /\ s[1] \in {"-", "+"}

Unsigned(s) == IF HasSign(s) THEN Tail(s) ELSE s

SignOf(s) == IF Len(s) > 0 /\ s[1] = "-" THEN 0 - 1 ELSE 1

\* int(text) succeeds: an optional sign and decimal digits.
IntOk(s) == IsDigits(Unsigned(s))

\* int(text), where IntOk(text).
IntVal(s) == SignOf(s) * DigitsVal(Unsigned(s))

DotAt(s) == {i \in 1..Len(s) : s[i] = "."}

\* The body of a decimal literal: digits with at most one point and at least
\* one digit ("1", "1.5", "1.", ".5").
IsDecimal(s) ==
    /\ Cardinality(DotAt(s)) <= 1
    /\ \A i \in 1..Len(s) : s[i] \in DigitChars \cup {"."}
    /\ \E i \in 1..Len(s) : s[i] \in DigitChars

DecimalVal(s) ==
    IF DotAt(s) = {} THEN QInt(DigitsVal(s))
    ELSE LET p == CHOOSE i \in DotAt(s) : TRUE
             whole == SubSeq(s, 1, p - 1)
             frac == SubSeq(s, p + 1, Len(s))
         IN  Q(DigitsVal(whole \o frac), IPow10(Len(frac)))

IsInfText(s) == s = <<"i", "n", "f">>

IsNanText(s) == s = <<"n", "a", "n">>

\* float(text) succeeds: a signed decimal, or inf / nan (which Python accepts).
\* Exponents, blanks and underscores, which Python accepts too, do not occur
\* in the texts of the model.
FloatOk(s) ==
    LET u == Unsigned(s) IN IsDecimal(u) \/ IsInfText(u) \/ IsNanText(u)

\* float(text), where FloatOk(text).
FloatVal(s) ==
    LET u == Unsigned(s)
    IN  CASE IsInfText(u) -> Inf(SignOf(s))
          [] IsNanText(u) -> NaN
          [] OTHER -> FMul(QInt(SignOf(s)), DecimalVal(u))

----------------------------------------------------------------------------
(* The session state.                                                      *)

Keys == {"x_min", "x_max", "y_min", "y_max"}

\* The iteration order of the dict self.calibration.
KeyOrder == <<"x_min", "x_max", "y_min", "y_max">>

\* calibration[key]['name'] (version 2).
Name(key) ==
    CASE key = "x_min" -> "X Min" [] key = "x_max" -> "X Max"
      [] key = "y_min" -> "Y Min" [] key = "y_max" -> "Y Max"

PickingPoints == "picking_points"

\* What a handler call leaves behind for the user: the handler (op), its
\* inputs (args), how it ended (res), the anchors a dialog lists (msg), the
\* points an extraction produced (pts), and the rows written to the CSV
\* file (rows; file says whether a file was opened at all).
Out(op, args, res, msg, pts, file, rows) ==
    [op |-> op, args |-> args, res |-> res, msg |-> msg, pts |-> pts,
     file |-> file, rows |-> rows]

Quiet(op, args, res) == Out(op, args, res, <<>>, <<>>, FALSE, <<>>)

\* The state after CarbonTraceWindow.__init__, in one of the given versions.
InitOn(versions) ==
    /\ version \in versions
    /\ img = NoImage
    /\ calibration = [key \in Keys |-> [pixel |-> None, val |-> None]]
    /\ data_points = <<>>
    /\ current_state = NoState
    /\ btn_pick = FALSE
    /\ x_scale_type = "linear"
    /\ y_scale_type = "linear"
    /\ out = Quiet("init", <<>>, "ok")

Init == InitOn({1, 2})

----------------------------------------------------------------------------
(* Color extraction (select_by_color).  An image is a sequence of rows,    *)
(* each a sequence of pixels <<r, g, b>> with components in 0..255; the    *)
(* raster plt.imread returns for it holds component / 255.  Row y, column  *)
(* x of the raster is image[y + 1][x + 1].                                 *)

Height(image) == Len(image)

Width(image) == Len(image[1])

\* 255^2 * |pixel - target|^2, for target = [r, g, b] / 255.0.
DistSq(pixel, target) ==
    (pixel[1] - target[1]) * (pixel[1] - target[1])
    + (pixel[2] - target[2]) * (pixel[2] - target[2])
    + (pixel[3] - target[3]) * (pixel[3] - target[3])

\* dist < tol, for tol = float(text) / 100.0: strictly less.  A nan never
\* compares less, +inf always does; dist >= 0, so no tol <= 0 matches.
Within(pixel, target, tol) ==
    CASE tol.k = "nan" -> FALSE
      [] tol.k = "inf" -> tol.n > 0
      [] tol.k = "q" ->
            /\ tol.n > 0
            /\ DistSq(pixel, target) * tol.d * tol.d < tol.n * tol.n * 255 * 255

\* np.where(dist < tol): the matching <<y, x>>.
Matches(image, target, tol) ==
    {yx \in (0..(Height(image) - 1)) \X (0..(Width(image) - 1)) :
        Within(image[yx[1] + 1][yx[2] + 1], target, tol)}

\* y_idx[x_idx == ux]
RowsOf(m, ux) == {yx[1] : yx \in {e \in m : e[2] = ux}}

RECURSIVE SumOf(_)
SumOf(S) == IF S = {} THEN 0 ELSE LET e == CHOOSE e \in S : TRUE IN e + SumOf(S \ {e})

MeanAsFirstRow(S) == QInt(CHOOSE e \in S : \A f \in S : e <= f)

\* np.mean of a non-empty set of row indices.
Mean(S) == Q(SumOf(S), Cardinality(S))

\* The loop over np.unique(x_idx), which is sorted ascending: one point
\* (ux, mean of the matching rows) per column that has a match.
RECURSIVE CollapseFrom(_, _, _)
CollapseFrom(m, ux, width) ==
    IF ux >= width THEN <<>>
    ELSE (IF RowsOf(m, ux) = {} THEN <<>> ELSE <<(<<QInt(ux), Mean(RowsOf(m, ux))>>)>>)
         \o CollapseFrom(m, ux + 1, width)

NewPoints(image, target, tol) ==
    CollapseFrom(Matches(image, target, tol), 0, Width(image))

----------------------------------------------------------------------------
(* The image files of the model.                                           *)

Red == <<255, 0, 0>>
NearRed == <<250, 0, 0>>
White == <<255, 255, 255>>
Black == <<0, 0, 0>>

\* Column 0 is red at rows {0, 2}, column 1 at row {1}; one black pixel.
Image1 == << <<Red,   White, Black>>,
             <<White, Red,   White>>,
             <<Red,   White, White>> >>

\* Column 1 has no red at all; column 0 has a nearly red pixel above a red one.
Image2 == << <<NearRed, White, Red>>,
             <<Red,     White, White>>,
             <<White,   White, Red>> >>

\* plt.imread(filename), for the image files of the model.
Raster(filename) ==
    CASE filename = "graph1.png" -> Image1
      [] filename = "graph2.png" -> Image2

----------------------------------------------------------------------------
(* The handlers.  Each takes the user's inputs as parameters.              *)

\* load_image: filename is what the file dialog returns ("" when it was
\* cancelled).  self.img = plt.imread(filename): the state keeps the file's
\* name and Raster(img) is the array read from it.
load_image(filename) ==
    /\ IF filename = ""
       THEN /\ img' = img
            /\ out' = Quiet("load_image", <<filename>>, "cancelled")
       ELSE /\ img' = filename
            /\ out' = Quiet("load_image", <<filename>>, "ok")
    /\ UNCHANGED <<version, calibration, data_points, current_state, btn_pick,
                   x_scale_type, y_scale_type>>

start_calibration(key) ==
    /\ IF img = NoImage
       THEN /\ current_state' = current_state
            /\ out' = Quiet("start_calibration", <<key>>, "no_image")
       ELSE /\ current_state' = key
            /\ out' = Quiet("start_calibration", <<key>>, "ok")
    /\ UNCHANGED <<version, img, calibration, data_points, btn_pick,
                   x_scale_type, y_scale_type>>

\* self.data_points.pop(): removes the last element.
PopFirst(points) == Tail(points)

Pop(points) == SubSeq(points, 1, Len(points) - 1)

\* self.data_points.extend(new_points)
ExtendReplacing(points, new_points) == new_points

Extend(points, new_points) == points \o new_points

\* toggle_picking runs on the clicked signal of the checkable button
\* btn_pick, after Qt has toggled its checked state.
toggle_picking ==
    /\ btn_pick' = ~btn_pick
    /\ current_state' = IF btn_pick' THEN PickingPoints ELSE NoState
    /\ out' = Quiet("toggle_picking", <<>>, "ok")
    /\ UNCHANGED <<version, img, calibration, data_points, x_scale_type, y_scale_type>>

\* if key.startswith('x'): ... = event.xdata  else: ... = event.ydata
ClickedPixelAlwaysX(key, xdata, ydata) == xdata

ClickedPixel(key, xdata, ydata) ==
    IF key \in {"x_min", "x_max"} THEN xdata ELSE ydata

\* on_canvas_click: inaxes says whether the click fell in the image axes;
\* xdata, ydata are its data coordinates; button is 1 (primary), 2 or 3
\* (secondary).  cap bounds the length of data_points in the model.
on_canvas_click(inaxes, xdata, ydata, button, cap) ==
    LET args == <<inaxes, xdata, ydata, button>> IN
    /\ UNCHANGED <<version, img, btn_pick, x_scale_type, y_scale_type>>
    /\ IF ~inaxes
       THEN /\ out' = Quiet("on_canvas_click", args, "outside")
            /\ UNCHANGED <<calibration, data_points, current_state>>
       ELSE IF current_state \in Keys
       THEN /\ calibration' =
                  [calibration EXCEPT ![current_state].pixel =
                      ClickedPixel(current_state, xdata, ydata)]
            /\ current_state' = NoState
            /\ out' = Quiet("on_canvas_click", args, "calibrated")
            /\ UNCHANGED data_points
       ELSE IF current_state = PickingPoints /\ button = 1
       THEN /\ Len(data_points) < cap
            /\ data_points' = Append(data_points, <<xdata, ydata>>)
            /\ out' = Quiet("on_canvas_click", args, "picked")
            /\ UNCHANGED <<calibration, current_state>>
       ELSE IF current_state = PickingPoints /\ button = 3 /\ data_points # <<>>
       THEN /\ data_points' = Pop(data_points)
            /\ out' = Quiet("on_canvas_click", args, "undone")
            /\ UNCHANGED <<calibration, current_state>>
       ELSE /\ out' = Quiet("on_canvas_click", args, "ignored")
            /\ UNCHANGED <<calibration, data_points, current_state>>

\* select_by_color: r, g, b, tol are the texts of in_r, in_g, in_b, in_tol.
select_by_color(r, g, b, tol, cap) ==
    LET args == <<r, g, b, tol>> IN
    /\ UNCHANGED <<version, img, calibration, current_state, btn_pick,
                   x_scale_type, y_scale_type>>
    /\ IF img = NoImage
       THEN /\ out' = Quiet("select_by_color", args, "no_image")
            /\ UNCHANGED data_points
       ELSE IF ~(IntOk(r) /\ IntOk(g) /\ IntOk(b) /\ FloatOk(tol))
       THEN /\ out' = Quiet("select_by_color", args, "invalid_color_inputs")
            /\ UNCHANGED data_points
       ELSE LET target == <<IntVal(r), IntVal(g), IntVal(b)>>
                new_points == NewPoints(Raster(img), target, FDiv(FloatVal(tol), QInt(100)))
            IN  /\ Len(data_points) + Len(new_points) <= cap
                /\ data_points' = Extend(data_points, new_points)
                /\ out' = Out("select_by_color", args, "auto_traced", <<>>,
                              new_points, FALSE, <<>>)

clear_points ==
    /\ data_points' = <<>>
    /\ out' = Quiet("clear_points", <<>>, "ok")
    /\ UNCHANGED <<version, img, calibration, current_state, btn_pick,
                   x_scale_type, y_scale_type>>

\* A click on the radio button "X Linear" or "X Log".  Version 2 copies the
\* checked button of the group into x_scale_type; version 1 reads
\* rad_x_log.isChecked() at export.
set_x_scale_type(kind) ==
    /\ x_scale_type' = kind
    /\ out' = Quiet("set_x_scale_type", <<kind>>, "ok")
    /\ UNCHANGED <<version, img, calibration, data_points, current_state, btn_pick,
                   y_scale_type>>

set_y_scale_type(kind) ==
    /\ y_scale_type' = kind
    /\ out' = Quiet("set_y_scale_type", <<kind>>, "ok")
    /\ UNCHANGED <<version, img, calibration, data_points, current_state, btn_pick,
                   x_scale_type>>

----------------------------------------------------------------------------
(* Export (save_data).                                                     *)

KeyIndex(key) == CHOOSE i \in 1..4 : KeyOrder[i] = key

Unset(cal, key) == cal[key].pixel = None

\* The keys whose pixel is None, in dict order.
MissingCal(cal) == SelectSeq(KeyOrder, LAMBDA key : Unset(cal, key))

\* What the calibration dialog lists.  Version 2 collects the name of every
\* unset anchor; version 1 returns at the first unset key and shows that key.
MissingMsg(v, cal) ==
    IF v = 2
    THEN [i \in 1..Len(MissingCal(cal)) |-> Name(MissingCal(cal)[i])]
    ELSE <<MissingCal(cal)[1]>>

\* not in_xmin.text() or not in_xmax.text() or ...
AnyEmpty(texts) == \E i \in 1..4 : texts[i] = <<>>

\* The first of the four float(...) calls that raises ValueError (5: none).
FirstBad(texts) ==
    IF \A i \in 1..4 : FloatOk(texts[i]) THEN 5
    ELSE CHOOSE i \in 1..4 :
            /\ ~FloatOk(texts[i])
            /\ \A j \in 1..(i - 1) : FloatOk(texts[j])

\* The four assignments cal[key]['val'] = float(text), in order, up to the
\* one that raises.
AssignVals(cal, texts) ==
    [key \in Keys |->
        IF KeyIndex(key) < FirstBad(texts)
        THEN [cal[key] EXCEPT !.val = FloatVal(texts[KeyIndex(key)])]
        ELSE cal[key]]

IsLog(kind) == kind = "log"

\* x1_val, x2_val = log10(x1_val), log10(x2_val) raises ValueError.
LogRaises(kind, v1, v2) == IsLog(kind) /\ (Log10Raises(v1) \/ Log10Raises(v2))

\* x_res (or y_res) for one pixel coordinate:
\*   v1 + (px - p1) * (v2 - v1) / (p2 - p1), in logarithms on a log axis,
\*   followed by 10 ** result.
AxisResWithoutOffset(px, p1, p2, val1, val2, kind) ==
    LET v1 == IF IsLog(kind) THEN Log10(val1) ELSE val1
        v2 == IF IsLog(kind) THEN Log10(val2) ELSE val2
        res == FDiv(FMul(FSub(px, p1), FSub(v2, v1)), FSub(p2, p1))
    IN  IF IsLog(kind) THEN Pow10(res) ELSE res

AxisRes(px, p1, p2, val1, val2, kind) ==
    LET v1 == IF IsLog(kind) THEN Log10(val1) ELSE val1
        v2 == IF IsLog(kind) THEN Log10(val2) ELSE val2
        res == FAdd(v1, FDiv(FMul(FSub(px, p1), FSub(v2, v1)), FSub(p2, p1)))
    IN  IF IsLog(kind) THEN Pow10(res) ELSE res

\* The pair appended to real_data for the traced point pt.
RealPoint(pt, cal, xkind, ykind) ==
    <<AxisRes(pt[1], cal["x_min"].pixel, cal["x_max"].pixel,
              cal["x_min"].val, cal["x_max"].val, xkind),
      AxisRes(pt[2], cal["y_min"].pixel, cal["y_max"].pixel,
              cal["y_min"].val, cal["y_max"].val, ykind)>>

RECURSIVE RealDataReversed(_, _, _, _)
RealDataReversed(points, cal, xkind, ykind) ==
    IF points = <<>> THEN <<>>
    ELSE RealDataReversed(Tail(points), cal, xkind, ykind)
         \o <<RealPoint(Head(points), cal, xkind, ykind)>>

\* for px, py in self.data_points: ... real_data.append((x_res, y_res))
RECURSIVE RealData(_, _, _, _)
RealData(points, cal, xkind, ykind) ==
    IF points = <<>> THEN <<>>
    ELSE <<RealPoint(Head(points), cal, xkind, ykind)>>
         \o RealData(Tail(points), cal, xkind, ykind)

\* save_data: texts are the texts of in_xmin, in_xmax, in_ymin, in_ymax;
\* path is what the save dialog returns ("": cancelled).
save_data(texts, path) ==
    LET args == <<texts, path>>
        cal == AssignVals(calibration, texts)
    IN
    /\ UNCHANGED <<version, img, data_points, current_state, btn_pick,
                   x_scale_type, y_scale_type>>
    /\ IF MissingCal(calibration) # <<>>
       THEN /\ out' = Out("save_data", args, "calibration_missing",
                          MissingMsg(version, calibration), <<>>, FALSE, <<>>)
            /\ UNCHANGED calibration
       ELSE IF data_points = <<>>
       THEN /\ out' = Quiet("save_data", args, "no_data")
            /\ UNCHANGED calibration
       ELSE IF AnyEmpty(texts)
       THEN /\ out' = Quiet("save_data", args, "input_error_empty")
            /\ UNCHANGED calibration
       ELSE IF FirstBad(texts) <= 4
       THEN /\ out' = Quiet("save_data", args, "input_error_number")
            /\ calibration' = cal
       ELSE IF \/ LogRaises(x_scale_type, cal["x_min"].val, cal["x_max"].val)
               \/ LogRaises(y_scale_type, cal["y_min"].val, cal["y_max"].val)
       THEN /\ out' = Quiet("save_data", args, "unhandled_ValueError")
            /\ calibration' = cal
       ELSE IF path = ""
       THEN /\ out' = Quiet("save_data", args, "cancelled")
            /\ calibration' = cal
       ELSE /\ out' = Out("save_data", args, "exported", <<>>, <<>>, TRUE,
                          RealData(data_points, cal, x_scale_type, y_scale_type))
            /\ calibration' = cal

----------------------------------------------------------------------------
(* The user's inputs, and the specifications.                              *)

Click(inaxes, x, y, button) ==
    [inaxes |-> inaxes, xdata |-> x, ydata |-> y, button |-> button]

Color(r, g, b, tol) == [r |-> r, g |-> g, b |-> b, tol |-> tol]

T0 == <<"0">>
T1 == <<"1">>
T10 == <<"1", "0">>
T20 == <<"2", "0">>
T100 == <<"1", "0", "0">>
T255 == <<"2", "5", "5">>
T300 == <<"3", "0", "0">>
T50 == <<"5", "0">>
T1000 == <<"1", "0", "0", "0">>
TMinus1 == <<"-", "1">>
TMinus5 == <<"-", "5">>
TNan == <<"n", "a", "n">>
TInf == <<"i", "n", "f">>
TAbc == <<"a", "b", "c">>
TEmpty == <<>>

\* One step of the program: any handler, on any input of the record I of
\* input sets (I.cap bounds the number of traced points).
NextOn(I) ==
    \/ \E f \in I.files : load_image(f)
    \/ \E key \in I.keys : start_calibration(key)
    \/ toggle_picking
    \/ \E c \in I.clicks : on_canvas_click(c.inaxes, c.xdata, c.ydata, c.button, I.cap)
    \/ \E c \in I.colors : select_by_color(c.r, c.g, c.b, c.tol, I.cap)
    \/ clear_points
    \/ \E kind \in I.kinds : set_x_scale_type(kind)
    \/ \E kind \in I.kinds : set_y_scale_type(kind)
    \/ \E t \in I.texts : \E path \in I.paths : save_data(t, path)

\* Tracing: manual picks, undo and extraction batches of one and of two
\* points on one image.
TraceInputs ==
    [files  |-> {"", "graph1.png"},
     keys   |-> {"x_min"},
     clicks |-> {Click(TRUE, Q(1, 2), QInt(2), 1), Click(TRUE, Q(1, 2), QInt(2), 3),
                 Click(FALSE, None, None, 1)},
     colors |-> {Color(T0, T0, T0, T1), Color(T255, T0, T0, T1),
                 Color(TAbc, T0, T0, T10)},
     kinds  |-> {"linear"},
     texts  |-> {<<T0, T100, T0, T100>>},
     paths  |-> {"out.csv"},
     cap    |-> MaxPoints]

Next == NextOn(TraceInputs)

Spec == Init /\ [][Next]_vars

\* Color extraction: two images and the color inputs in full.
ColorInputs ==
    [files  |-> {"", "graph1.png", "graph2.png"},
     keys   |-> {"x_min"},
     clicks |-> {Click(TRUE, Q(1, 2), QInt(2), 1), Click(FALSE, None, None, 1)},
     colors |-> {Color(T255, T0, T0, T0), Color(T255, T0, T0, T1),
                 Color(T255, T0, T0, T10), Color(T0, T0, T0, T1),
                 Color(T255, T255, T255, T1),
                 Color(T300, T0, T0, T20), Color(TMinus1, T0, T0, T1),
                 Color(T255, T0, T0, TMinus5), Color(T255, T0, T0, TNan),
                 Color(T255, T0, T0, TInf),
                 Color(TAbc, T0, T0, T10), Color(T255, T0, T0, TEmpty)},
     kinds  |-> {"linear"},
     texts  |-> {<<T0, T100, T0, T100>>},
     paths  |-> {"out.csv"},
     cap    |-> MaxColorPoints]

NextColor == NextOn(ColorInputs)

SpecColor == Init /\ [][NextColor]_vars

\* Missing anchors: every subset of the four anchors, in both versions.
MissingInputs ==
    [files  |-> {"", "graph1.png"},
     keys   |-> Keys,
     clicks |-> {Click(TRUE, QInt(1), QInt(2), 1), Click(TRUE, QInt(1), QInt(2), 3)},
     colors |-> {Color(TAbc, T0, T0, T10)},
     kinds  |-> {"linear"},
     texts  |-> {<<T0, T100, T0, T100>>},
     paths  |-> {"out.csv"},
     cap    |-> MaxMissingPoints]

NextMissing == NextOn(MissingInputs)

SpecMissing == Init /\ [][NextMissing]_vars

\* Export: all four anchors on two click positions (so that an axis can have
\* a zero or a non-zero pixel span), picks and an extraction batch.
ExportInputs ==
    [files  |-> {"graph1.png"},
     keys   |-> Keys,
     clicks |-> {Click(TRUE, QInt(0), QInt(0), 1), Click(TRUE, QInt(2), QInt(2), 1),
                 Click(TRUE, QInt(0), QInt(0), 3)},
     colors |-> {Color(T0, T0, T0, T1)},
     kinds  |-> {"linear"},
     texts  |-> {<<T0, T100, T0, T100>>},
     paths  |-> {"out.csv"},
     cap    |-> MaxExportPoints]

NextExport == NextOn(ExportInputs)

InitExport == InitOn({2})

SpecExport == InitExport /\ [][NextExport]_vars

\* Axis values: the four value texts and the scale kinds in full, one click
\* position.
ValueInputs ==
    [files  |-> {"graph1.png"},
     keys   |-> Keys,
     clicks |-> {Click(TRUE, QInt(1), QInt(1), 1), Click(TRUE, QInt(1), QInt(1), 3)},
     colors |-> {Color(TAbc, T0, T0, T10)},
     kinds  |-> {"linear", "log"},
     texts  |-> {<<T1, T100, T1, T100>>, <<T0, T100, T1, T100>>,
                 <<T1, T100, T1, TMinus5>>,
                 <<TAbc, T10, T10, T10>>, <<T10, TAbc, T10, T10>>,
                 <<T10, T10, TAbc, T10>>, <<T10, T10, T10, TAbc>>,
                 <<TEmpty, T10, T10, T10>>, <<T10, T10, T10, TEmpty>>},
     paths  |-> {"out.csv"},
     cap    |-> MaxValuePoints]

NextValue == NextOn(ValueInputs)

SpecValue == Init /\ [][NextValue]_vars

\* A traced point.
P(x, y) == <<x, y>>

\* Reconstruction: the states after calibration and one pick, on anchors and
\* a traced point at chosen pixel positions.  AxisCases are, for one axis,
\* the pixels p1, p2 of its two anchors and the pixel px of the point: a
\* span of 100 and a span of 3, the latter in both directions, with points
\* on the anchors, between them and beyond them.
AxisCases ==
    {[p1 |-> 0, p2 |-> 100, px |-> px] : px \in {0, 50, 100}}
        \cup {[p1 |-> 0, p2 |-> 3, px |-> px] : px \in {0, 1, 2, 3, 4}}
        \cup {[p1 |-> 3, p2 |-> 0, px |-> px] : px \in {0, 1, 2, 4}}

Anchor(pixel) == [pixel |-> QInt(pixel), val |-> None]

InitAxis ==
    /\ version \in {1, 2}
    /\ img = "graph1.png"
    /\ \E cx \in AxisCases, cy \in AxisCases :
          /\ calibration = [key \in Keys |->
                CASE key = "x_min" -> Anchor(cx.p1) [] key = "x_max" -> Anchor(cx.p2)
                  [] key = "y_min" -> Anchor(cy.p1) [] key = "y_max" -> Anchor(cy.p2)]
          /\ data_points = <<P(QInt(cx.px), QInt(cy.px))>>
    /\ current_state = NoState
    /\ btn_pick = FALSE
    /\ x_scale_type = "linear"
    /\ y_scale_type = "linear"
    /\ out = Quiet("init", <<>>, "ok")

AxisTexts ==
    {<<T0, T50, T0, T50>>, <<T1, T1000, T1, T1000>>,
     <<T0, T50, T1, T1000>>, <<T1, T1000, T0, T50>>}

NextAxis ==
    \/ \E kind \in {"linear", "log"} : set_x_scale_type(kind)
    \/ \E kind \in {"linear", "log"} : set_y_scale_type(kind)
    \/ \E t \in AxisTexts : save_data(t, "out.csv")

SpecAxis == InitAxis /\ [][NextAxis]_vars

----------------------------------------------------------------------------
(* Properties.                                                             *)

IsSaveData(o) == o.op = "save_data"

IsSelectByColor(o) == o.op = "select_by_color"

\* The four value texts of a save_data call, and what a dialog of it lists.
TextsOf(o) == o.args[1]

AllSet(cal) == \A key \in Keys : ~Unset(cal, key)

UnsetKeys(cal) == {key \in Keys : Unset(cal, key)}

\* The anchors a calibration dialog mentions, by name or by key.
Mentioned(msg) ==
    {key \in Keys : \E i \in 1..Len(msg) : msg[i] = Name(key) \/ msg[i] = key}

\* save_data ended in the validation error for the axis-value texts.
ValueValidationFailed(o) ==
    IsSaveData(o) /\ o.res \in {"input_error_empty", "input_error_number"}

\* C1: when save_data fails its validation of the four axis-value texts,
\* no calibration entry and no traced point differs from before the call.
C1_FailedValidationLeavesState ==
    [][ValueValidationFailed(out')
          => (calibration' = calibration /\ data_points' = data_points)]_vars

\* C2: an export with an unset anchor fails before any point is processed
\* and its message names exactly the unset anchors.
C2_NamesExactlyTheUnset ==
    (IsSaveData(out) /\ ~AllSet(calibration))
        => /\ out.res = "calibration_missing"
           /\ Mentioned(out.msg) = UnsetKeys(calibration)
           /\ ~out.file /\ out.rows = <<>>

\* C2, version 2 alone: the dialog of UOP_CarbonTrace_v2.py names exactly
\* the unset anchors.
C2_Version2NamesExactlyTheUnset == version = 2 => C2_NamesExactlyTheUnset

\* The outcomes of save_data that are reported to the user as an error.
ReportedError(o) ==
    o.res \in {"calibration_missing", "no_data", "input_error_empty",
               "input_error_number", "domain_error"}

ZeroSpan(cal) ==
    /\ AllSet(cal)
    /\ \/ cal["x_min"].pixel = cal["x_max"].pixel
       \/ cal["y_min"].pixel = cal["y_max"].pixel

IsInfOrNan(a) == a.k \in {"inf", "nan"}

HasInfOrNan(rows) ==
    \E i \in 1..Len(rows) : IsInfOrNan(rows[i][1]) \/ IsInfOrNan(rows[i][2])

\* C3: with pMin = pMax on an axis, export is an error outcome that writes
\* no row and produces no inf or nan.
C3_ZeroSpanIsAnError ==
    (IsSaveData(out) /\ ZeroSpan(calibration) /\ data_points # <<>>)
        => /\ ReportedError(out)
           /\ ~out.file /\ out.rows = <<>>
           /\ ~HasInfOrNan(out.rows)

NonPositive(a) == a.k = "q" /\ a.n <= 0

\* The texts all parse, and an axis in log mode gets a value <= 0.
LogDomainCase(texts, xkind, ykind) ==
    /\ ~AnyEmpty(texts) /\ FirstBad(texts) = 5
    /\ \/ IsLog(xkind) /\ (NonPositive(FloatVal(texts[1])) \/ NonPositive(FloatVal(texts[2])))
       \/ IsLog(ykind) /\ (NonPositive(FloatVal(texts[3])) \/ NonPositive(FloatVal(texts[4])))

\* C4: on a log axis with vMin <= 0 or vMax <= 0 the export is reported as
\* an error and leaves calibration and traced points as they were.
C4_LogDomainErrorIsReported ==
    [][(/\ IsSaveData(out') /\ AllSet(calibration) /\ data_points # <<>>
        /\ LogDomainCase(TextsOf(out'), x_scale_type, y_scale_type))
          => /\ ReportedError(out')
             /\ calibration' = calibration /\ data_points' = data_points]_vars

\* The inputs of a select_by_color call: the target components and the
\* tolerance text.
TargetOf(o) == <<IntVal(o.args[1]), IntVal(o.args[2]), IntVal(o.args[3])>>

TolOf(o) == FDiv(FloatVal(o.args[4]), QInt(100))

\* C5: on the 3x3 image whose column 0 matches at rows {0, 2} and column 1
\* at row {1}, extraction with the exact target and tolerance 0 returns
\* [(0, 1.0), (1, 1.0)].
C5_ExactMatchAtZeroTolerance ==
    (IsSelectByColor(out) /\ img = "graph1.png" /\ out.args = <<T255, T0, T0, T0>>)
        => out.pts = <<P(QInt(0), QInt(1)), P(QInt(1), QInt(1))>>

ColsOf(m) == {yx[2] : yx \in m}

\* C6: extraction emits exactly one point per column that has a match and
\* none for any other column, in strictly ascending column order; a point's
\* x is its column and its y the mean of the matching rows of that column.
C6_OnePointPerMatchingColumn ==
    (IsSelectByColor(out) /\ out.res = "auto_traced")
        => LET m == Matches(Raster(img), TargetOf(out), TolOf(out))
               pts == out.pts
           IN  /\ Len(pts) = Cardinality(ColsOf(m))
               /\ \A i \in 1..Len(pts) :
                    /\ pts[i][1].k = "q" /\ pts[i][1].d = 1
                    /\ pts[i][1].n \in ColsOf(m)
                    /\ pts[i][2].k = "q"
                    /\ pts[i][2].n * Cardinality(RowsOf(m, pts[i][1].n))
                         = SumOf(RowsOf(m, pts[i][1].n)) * pts[i][2].d
               /\ \A i \in 1..Len(pts) : \A j \in 1..Len(pts) :
                    i < j => pts[i][1].n < pts[j][1].n

\* An extraction of two columns with a column without a match between them,
\* one of them with a mean that is no row index.
C6_Witness ==
    /\ IsSelectByColor(out) /\ out.res = "auto_traced"
    /\ out.pts = <<P(QInt(0), Q(1, 2)), P(QInt(2), QInt(1))>>

\* A color component that is no integer in 0..255.
BadComponent(text) == ~IntOk(text) \/ IntVal(text) < 0 \/ IntVal(text) > 255

\* A tolerance that is no non-negative finite number.
BadTolerance(text) ==
    \/ ~FloatOk(text)
    \/ FloatVal(text).k # "q"
    \/ FloatVal(text).n < 0

InvalidColorInput(args) ==
    BadComponent(args[1]) \/ BadComponent(args[2]) \/ BadComponent(args[3])
        \/ BadTolerance(args[4])

\* C7: extraction on invalid color or tolerance input fails with the
\* invalid-input error and appends nothing.
C7_InvalidInputIsRejected ==
    [][(IsSelectByColor(out') /\ img # NoImage /\ InvalidColorInput(out'.args))
          => (out'.res = "invalid_color_inputs" /\ data_points' = data_points)]_vars

\* A click with the secondary button, inside the axes, in trace-picking mode.
IsUndoClick(o, state) ==
    /\ o.op = "on_canvas_click"
    /\ o.args[1] /\ o.args[4] = 3
    /\ state = PickingPoints

\* C8: undo removes exactly the last traced point and keeps every earlier
\* one in place; on an empty sequence it changes nothing.
C8_UndoRemovesTheLast ==
    [][IsUndoClick(out', current_state)
          => IF data_points = <<>>
             THEN data_points' = <<>>
             ELSE /\ Len(data_points') = Len(data_points) - 1
                  /\ \A i \in 1..Len(data_points') : data_points'[i] = data_points[i]]_vars

\* An undo that left two points, the second one from an extraction batch.
C8_Witness ==
    /\ out.op = "on_canvas_click" /\ out.res = "undone"
    /\ Len(data_points) = 2
    /\ data_points[2] = P(QInt(2), QInt(0))

\* C9: an extraction keeps the traced points it found as a prefix and
\* appends its output after them.
C9_ExtractionAppends ==
    [][IsSelectByColor(out')
          => /\ Len(data_points') = Len(data_points) + Len(out'.pts)
             /\ \A i \in 1..Len(data_points) : data_points'[i] = data_points[i]
             /\ \A j \in 1..Len(out'.pts) :
                    data_points'[Len(data_points) + j] = out'.pts[j]]_vars

\* A manual pick followed by two extractions of one point each.
C9_Witness ==
    /\ IsSelectByColor(out) /\ Len(out.pts) = 1
    /\ data_points = <<P(Q(1, 2), QInt(2)), P(QInt(2), QInt(0)), P(QInt(2), QInt(0))>>

\* C10: a successful export writes one row per traced point, the i-th row
\* being the reconstruction of the i-th traced point.
C10_RowsFollowThePoints ==
    (IsSaveData(out) /\ out.res = "exported")
        => /\ Len(out.rows) = Len(data_points)
           /\ \A i \in 1..Len(data_points) :
                out.rows[i] = RealPoint(data_points[i], calibration,
                                        x_scale_type, y_scale_type)

\* An export of two points with different finite rows.
C10_Witness ==
    /\ IsSaveData(out) /\ out.res = "exported"
    /\ Len(out.rows) = 2
    /\ out.rows[1] # out.rows[2]
    /\ ~HasInfOrNan(out.rows)

AllUnset(cal) == \A key \in Keys : Unset(cal, key)

\* C11: a load_image that succeeds over an already loaded image leaves all
\* four calibration anchors unset and the traced-point sequence empty.
C11_LoadResetsTheSession ==
    [][(img # NoImage /\ out'.op = "load_image" /\ out'.res = "ok")
          => (AllUnset(calibration') /\ data_points' = <<>>)]_vars

\* C16: in every reachable state current_state is 'picking_points' exactly
\* when the Manual Trace button is checked.
C16_ToggleAndModeAgree == (current_state = PickingPoints) <=> btn_pick

\* C16, the consequence: a primary click inside the axes while the Manual
\* Trace button is checked appends the clicked position.
C16_CheckedClickAppends ==
    [][(/\ out'.op = "on_canvas_click" /\ out'.args[1] /\ out'.args[4] = 1
        /\ btn_pick)
          => data_points' = Append(data_points, <<out'.args[2], out'.args[3]>>)]_vars

\* C17: in every reachable state without an image, all four anchor pixels
\* are unset and the traced-point sequence is empty.
C17_NoDataBeforeAnImage ==
    img = NoImage => (AllUnset(calibration) /\ data_points = <<>>)

\* C17, the part on the anchors alone.
C17_NoAnchorBeforeAnImage == img = NoImage => AllUnset(calibration)

\* A click inside the axes while the calibration target key is pending.
IsCalibrationClick(o, state) ==
    o.op = "on_canvas_click" /\ o.args[1] /\ state \in Keys

\* C15: a click while a calibration target is pending sets the pixel of that
\* anchor to the click's x coordinate (x_min, x_max) or y coordinate (y_min,
\* y_max); the anchor's value, the other three anchors and the traced points
\* stay as they were, and no target is pending afterwards.
C15_CalibrationClickSetsOnePixel ==
    [][IsCalibrationClick(out', current_state)
          => LET key == current_state IN
             /\ key \in {"x_min", "x_max"} => calibration'[key].pixel = out'.args[2]
             /\ key \in {"y_min", "y_max"} => calibration'[key].pixel = out'.args[3]
             /\ calibration'[key].val = calibration[key].val
             /\ \A other \in Keys \ {key} : calibration'[other] = calibration[other]
             /\ data_points' = data_points
             /\ current_state' \notin Keys
             /\ current_state' = NoState]_vars

\* A y anchor picked again after an export gave it a value, with a traced
\* point present: its pixel is the click's y coordinate.
C15_Witness ==
    /\ out.op = "on_canvas_click" /\ out.res = "calibrated"
    /\ out.args[2] = QInt(1) /\ out.args[3] = QInt(2)
    /\ calibration["y_max"].pixel = QInt(2) /\ calibration["y_max"].val = QInt(100)
    /\ calibration["x_min"].pixel = QInt(1)
    /\ calibration["x_min"].val = QInt(0)
    /\ data_points = <<P(QInt(1), QInt(2))>>
    /\ current_state = NoState

\* A save_data call on a state or on texts that fail one of the validations
\* of export: an unset anchor, no traced point, an empty or non-numeric axis
\* value, or a domain error (a zero pixel span, a value <= 0 on a log axis).
FailsAValidation(o, cal, points, xkind, ykind) ==
    \/ ~AllSet(cal)
    \/ points = <<>>
    \/ AnyEmpty(TextsOf(o))
    \/ FirstBad(TextsOf(o)) <= 4
    \/ ZeroSpan(cal)
    \/ LogDomainCase(TextsOf(o), xkind, ykind)

C12_DetectedFailureWritesNothing ==
    IsSaveData(out)
        => /\ (ReportedError(out) \/ out.res = "unhandled_ValueError")
                => (~out.file /\ out.rows = <<>>)
           /\ out.file => Len(out.rows) = Len(data_points)

IsExport(o) == IsSaveData(o) /\ o.res = "exported"

IsInteger(a) == a.k = "q" /\ a.d = 1

\* r = v1 + (px - p1) * (v2 - v1) / (p2 - p1) for integers px, p1, p2, v1,
\* v2 and a rational r, cleared of its denominators.
OnTheLine(r, px, p1, p2, v1, v2) ==
    /\ r.k = "q"
    /\ (r.n - v1 * r.d) * (p2 - p1) = (px - p1) * (v2 - v1) * r.d

\* The linear law of one axis: the exported value r of pixel px lies on the
\* line through (p1, v1) and (p2, v2), pixel p1 gives v1 and pixel p2 gives
\* v2.
LinearLaw(r, px, cal1, cal2) ==
    /\ IsInteger(px) /\ IsInteger(cal1.pixel) /\ IsInteger(cal2.pixel)
    /\ IsInteger(cal1.val) /\ IsInteger(cal2.val)
    /\ OnTheLine(r, px.n, cal1.pixel.n, cal2.pixel.n, cal1.val.n, cal2.val.n)
    /\ px = cal1.pixel => r = cal1.val
    /\ px = cal2.pixel => r = cal2.val

\* The example of the linear law: anchors at pixels 0 and 100 with values 0
\* and 50.
LinearExample(cal1, cal2) ==
    /\ cal1.pixel = QInt(0) /\ cal2.pixel = QInt(100)
    /\ cal1.val = QInt(0) /\ cal2.val = QInt(50)

\* C13: on a linear axis with pMin # pMax the exported value of a traced
\* point is vMin + (pixel - pMin) * (vMax - vMin) / (pMax - pMin), from the
\* x anchors and the x pixel for x and the y anchors and the y pixel for y:
\* pMin gives vMin, pMax gives vMax, and with pMin = 0, pMax = 100, vMin = 0,
\* vMax = 50 pixel 50 gives 25.
C13_LinearAxisIsAffine ==
    IsExport(out)
        => \A i \in 1..Len(data_points) :
            LET pt == data_points[i]
                row == out.rows[i]
                x1 == calibration["x_min"]
                x2 == calibration["x_max"]
                y1 == calibration["y_min"]
                y2 == calibration["y_max"]
            IN  /\ (~IsLog(x_scale_type) /\ x1.pixel # x2.pixel)
                      => /\ LinearLaw(row[1], pt[1], x1, x2)
                         /\ (LinearExample(x1, x2) /\ pt[1] = QInt(50))
                                => row[1] = QInt(25)
                /\ (~IsLog(y_scale_type) /\ y1.pixel # y2.pixel)
                      => /\ LinearLaw(row[2], pt[2], y1, y2)
                         /\ (LinearExample(y1, y2) /\ pt[2] = QInt(50))
                                => row[2] = QInt(25)

\* The example of C13 on x, with another case on y: the point (50, 1) on x
\* anchors 0 -> 0 and 100 -> 50 and y anchors 3 -> 1 and 0 -> 1000 is
\* exported as (25, 667).
C13_Witness ==
    /\ IsExport(out)
    /\ x_scale_type = "linear" /\ y_scale_type = "linear"
    /\ LinearExample(calibration["x_min"], calibration["x_max"])
    /\ calibration["y_min"].pixel = QInt(3) /\ calibration["y_min"].val = QInt(1)
    /\ calibration["y_max"].pixel = QInt(0) /\ calibration["y_max"].val = QInt(1000)
    /\ data_points = <<P(QInt(50), QInt(1))>>
    /\ out.rows = <<P(QInt(25), QInt(667))>>

\* r is 10 ** e for a rational e: an integer power of ten, or the symbolic
\* power of a non-integer exponent.
IsPowerOfTen(r) ==
    \/ r.k = "pow10"
    \/ r.k = "q" /\ r.d = 1 /\ IsPow10(r.n)
    \/ r.k = "q" /\ r.n = 1 /\ IsPow10(r.d)

\* The exponent e of r = 10 ** e.
ExponentOf(r) == IF r.k = "pow10" THEN Q(r.n, r.d) ELSE Log10(r)

\* The log law of one axis: the exported value r of pixel px is 10 ** e with
\* e on the line through (p1, log10 v1) and (p2, log10 v2).
LogLaw(r, px, cal1, cal2) ==
    /\ IsInteger(px) /\ IsInteger(cal1.pixel) /\ IsInteger(cal2.pixel)
    /\ IsInteger(cal1.val) /\ IsPow10(cal1.val.n)
    /\ IsInteger(cal2.val) /\ IsPow10(cal2.val.n)
    /\ IsPowerOfTen(r)
    /\ OnTheLine(ExponentOf(r), px.n, cal1.pixel.n, cal2.pixel.n,
                 ILog10(cal1.val.n), ILog10(cal2.val.n))

\* The example of the log law: anchors at pixels 0 and 3 with values 1 and
\* 1000.
LogExample(cal1, cal2) ==
    /\ cal1.pixel = QInt(0) /\ cal2.pixel = QInt(3)
    /\ cal1.val = QInt(1) /\ cal2.val = QInt(1000)

\* C14: on a log axis the exported value is 10 raised to the affine
\* interpolation between log10(vMin) and log10(vMax): with vMin = 1,
\* vMax = 1000, pMin = 0, pMax = 3 pixel 1 gives 10 and pixel 2 gives 100;
\* and the other axis, when linear, keeps its linear value.
C14_LogAxisInterpolatesExponents ==
    IsExport(out)
        => \A i \in 1..Len(data_points) :
            LET pt == data_points[i]
                row == out.rows[i]
                x1 == calibration["x_min"]
                x2 == calibration["x_max"]
                y1 == calibration["y_min"]
                y2 == calibration["y_max"]
            IN  /\ (IsLog(x_scale_type) /\ x1.pixel # x2.pixel)
                      => /\ LogLaw(row[1], pt[1], x1, x2)
                         /\ (LogExample(x1, x2) /\ pt[1] = QInt(1)) => row[1] = QInt(10)
                         /\ (LogExample(x1, x2) /\ pt[1] = QInt(2)) => row[1] = QInt(100)
                         /\ (~IsLog(y_scale_type) /\ y1.pixel # y2.pixel)
                                => LinearLaw(row[2], pt[2], y1, y2)
                /\ (IsLog(y_scale_type) /\ y1.pixel # y2.pixel)
                      => /\ LogLaw(row[2], pt[2], y1, y2)
                         /\ (LogExample(y1, y2) /\ pt[2] = QInt(1)) => row[2] = QInt(10)
                         /\ (LogExample(y1, y2) /\ pt[2] = QInt(2)) => row[2] = QInt(100)
                         /\ (~IsLog(x_scale_type) /\ x1.pixel # x2.pixel)
                                => LinearLaw(row[1], pt[1], x1, x2)

\* The example of C14 on a log x axis beside a linear y axis: the point
\* (2, 50) on x anchors 0 -> 1 and 3 -> 1000 and y anchors 0 -> 0 and
\* 100 -> 50 is exported as (100, 25).
C14_Witness ==
    /\ IsExport(out)
    /\ x_scale_type = "log" /\ y_scale_type = "linear"
    /\ LogExample(calibration["x_min"], calibration["x_max"])
    /\ LinearExample(calibration["y_min"], calibration["y_max"])
    /\ data_points = <<P(QInt(2), QInt(50))>>
    /\ out.rows = <<P(QInt(100), QInt(25))>>

====
